---- MODULE Spec2Model ----
(***************************************************************************)
(* RobotAPI (fleet_adapter_template/RobotClientAPI.py): a facade over one  *)
(* robot's HTTP API.  The model keeps the instance's fields, the record of *)
(* the constructor call and the log of the method calls made on the        *)
(* instance, each with the requests it put on the wire and what the        *)
(* network answered.                                                       *)
(*                                                                         *)
(* Numbers are carried as hundredths (0.75 is 75, 1.57 is 157).  A Python  *)
(* value is [t |-> its type, v |-> its content as a sequence of numbers];  *)
(* a JSON value on the wire is [t |-> its JSON kind, v |-> content].       *)
(***************************************************************************)
EXTENDS Integers, Sequences, FiniteSets, TLC

VARIABLES constructed, self, ctor, log

vars == <<constructed, self, ctor, log>>

\* The number of method calls made on the instance in one run.
MaxCalls == 2

-----------------------------------------------------------------------------
(* Python values *)

PyNone == [t |-> "NoneType", v |-> <<>>]

PyBool(b) == [t |-> "bool", v |-> <<IF b THEN 1 ELSE 0>>]

PyFloat(x) == [t |-> "float", v |-> <<x>>]

PyInt(x) == [t |-> "int", v |-> <<x>>]

PyList(s) == [t |-> "list", v |-> s]

(* JSON values on the wire *)

JNull == [t |-> "null", v |-> <<>>]

JTrue == [t |-> "true", v |-> <<>>]

JReal(x) == [t |-> "real", v |-> <<x>>]

JInteger(x) == [t |-> "integer", v |-> <<x>>]

JArray(s) == [t |-> "array", v |-> s]

Member(k, val) == [k |-> k, val |-> val]

\* json.loads on one JSON value: the Python value it decodes to.
json_loads(j) ==
  CASE j.t = "real" -> PyFloat(j.v[1])
    [] j.t = "integer" -> PyInt(j.v[1])
    [] j.t = "array" -> PyList(j.v)
    [] j.t = "true" -> PyBool(TRUE)
    [] OTHER -> PyNone

\* json.dumps on one Python value, as requests does for the json= argument.
json_dumps(p) ==
  CASE p.t = "float" -> JReal(p.v[1])
    [] p.t = "int" -> JInteger(p.v[1])
    [] p.t = "list" -> JArray(p.v)
    [] p.t = "bool" -> JTrue
    [] OTHER -> JNull

-----------------------------------------------------------------------------
(* The inputs of the runs *)

Reachable == "http://robot:8000"

Unreachable == "http://10.0.0.9:8000"

NoScheme == "robot:8000"

Prefixes == {Reachable, Unreachable, NoScheme}

Robots == {"tinyRobot1"}

Maps == {"L1"}

Processes == {"clean", "dock"}

\* pose arguments: a full pose and one that is too short
Poses == {<<300, 400, 157>>, <<100, 200>>}

\* response bodies: all fields in range, fields out of range, an object
\* without the fields, and text that is not JSON
BodyGood ==
  [kind |-> "object",
   members |-> <<Member("position", JArray(<<100, 200, 50>>)),
                 Member("duration", JReal(1250)),
                 Member("soc", JReal(75))>>]

BodyOutOfRange ==
  [kind |-> "object",
   members |-> <<Member("position", JNull),
                 Member("duration", JReal(-300)),
                 Member("soc", JReal(150))>>]

BodyEmpty == [kind |-> "object", members |-> <<>>]

BodyText == [kind |-> "text", members |-> <<>>]

Bodies == {BodyGood, BodyOutOfRange, BodyEmpty, BodyText}

Reply(status, body) == [how |-> "reply", status_code |-> status, body |-> body]

Failure(how) == [how |-> how, status_code |-> 0, body |-> BodyText]

\* What the network can do with a request to an address under prefix.
Net(prefix) ==
  IF prefix = NoScheme THEN {Failure("schema")}
  ELSE IF prefix = Unreachable THEN {Failure("refused"), Failure("timeout")}
  ELSE {Failure("refused"), Reply(404, BodyGood)}
         \cup {Reply(200, b) : b \in Bodies}

NoNet == Failure("none")

-----------------------------------------------------------------------------
(* requests *)

Request(method, url, json) == [method |-> method, url |-> url, json |-> json]

NoJson == <<>>

\* requests.get / requests.post: a Response, or an exception raised.
requests_send(net) ==
  CASE net.how = "reply" ->
         [raised |-> FALSE, exc |-> "", status_code |-> net.status_code,
          body |-> net.body]
    [] net.how = "refused" ->
         [raised |-> TRUE, exc |-> "ConnectionError", status_code |-> 0,
          body |-> BodyText]
    [] net.how = "timeout" ->
         [raised |-> TRUE, exc |-> "Timeout", status_code |-> 0,
          body |-> BodyText]
    [] OTHER ->
         [raised |-> TRUE, exc |-> "MissingSchema", status_code |-> 0,
          body |-> BodyText]

HasKey(members, k) == \E i \in 1..Len(members) : members[i].k = k

Lookup(members, k) ==
  members[CHOOSE i \in 1..Len(members) : members[i].k = k].val

\* response.json()[key]: the decoded value, or an exception raised
\* (ValueError on text that is not JSON, KeyError on a missing key).
json_field(response, key) ==
  IF response.body.kind = "text"
  THEN [raised |-> TRUE, exc |-> "JSONDecodeError", value |-> PyNone]
  ELSE IF ~HasKey(response.body.members, key)
  THEN [raised |-> TRUE, exc |-> "KeyError", value |-> PyNone]
  ELSE [raised |-> FALSE, exc |-> "",
        value |-> json_loads(Lookup(response.body.members, key))]

-----------------------------------------------------------------------------
(* How a call ends: the value returned or the exception that escapes, the  *)
(* requests issued, and the instance's fields after the call.              *)

Return(value, reqs, s) ==
  [kind |-> "return", value |-> value, exc |-> "", reqs |-> reqs, self |-> s]

Raise(exc, reqs, s) ==
  [kind |-> "raise", value |-> PyNone, exc |-> exc, reqs |-> reqs, self |-> s]

-----------------------------------------------------------------------------
(* Faulty variants of the methods, one fault each.                         *)

\* check_connection that also refreshes the connected flag
check_connection_updates_flag(s, net) ==
  LET req == Request("GET", s.prefix \o "/health", NoJson)
      response == requests_send(net)
      ok == ~response.raised /\ response.status_code = 200
  IN Return(PyBool(ok), <<req>>, [s EXCEPT !.connected = ok])

\* the constructor setting the flag whatever the probe said
RobotAPI_always_connected(prefix, user, password, net) ==
  LET s0 == [prefix |-> prefix, user |-> user, password |-> password,
             connected |-> TRUE]
  IN Return(PyNone, <<Request("GET", prefix \o "/health", NoJson)>>, s0)

\* navigation_completed that wants a JSON body with its 200
navigation_completed_reads_body(s, robot_name, net) ==
  LET req == Request("GET", s.prefix \o "/nav_stat", NoJson)
      response == requests_send(net)
  IN Return(PyBool(~response.raised /\ response.status_code = 200
                     /\ response.body.kind # "text"), <<req>>, s)

\* navigation_completed that is true only after a navigate on this instance
navigation_completed_after_navigate(s, robot_name, net) ==
  LET req == Request("GET", s.prefix \o "/nav_stat", NoJson)
      response == requests_send(net)
  IN Return(PyBool(~response.raised /\ response.status_code = 200
                     /\ \E i \in 1..Len(log) : log[i].op = "navigate"),
            <<req>>, s)

\* navigate sending the pose with x and y exchanged
navigate_yx(s, robot_name, pose, map_name, net) ==
  IF Len(pose) < 3 THEN Raise("IndexError", <<>>, s)
  ELSE
    LET json == <<Member("x", json_dumps(PyFloat(pose[2]))),
                  Member("y", json_dumps(PyFloat(pose[1]))),
                  Member("theta", json_dumps(PyFloat(pose[3])))>>
        req == Request("POST", s.prefix \o "/navigate", json)
        response == requests_send(net)
    IN Return(PyBool(~response.raised /\ response.status_code = 200),
              <<req>>, s)

\* process_completed polling an endpoint instead of answering at once
process_completed_polls(s, robot_name, net) ==
  LET req == Request("GET", s.prefix \o "/process_stat", NoJson)
      response == requests_send(net)
  IN Return(PyBool(~response.raised /\ response.status_code = 200),
            <<req>>, s)

\* navigation_remaining_duration answering -1.0 for "unknown"
navigation_remaining_duration_minus_one(s, robot_name, net) ==
  LET req == Request("GET", s.prefix \o "/nav_remaining_duration", NoJson)
      response == requests_send(net)
      field == json_field(response, "duration")
  IN IF response.raised \/ response.status_code # 200 \/ field.raised
     THEN Return(PyFloat(-100), <<req>>, s)
     ELSE Return(field.value, <<req>>, s)

\* battery_soc clamping what the server sent into [0.0, 1.0]
battery_soc_clamped(s, robot_name, net) ==
  LET req == Request("GET", s.prefix \o "/soc", NoJson)
      response == requests_send(net)
      field == json_field(response, "soc")
  IN IF response.raised \/ response.status_code # 200 \/ field.raised
     THEN Return(PyFloat(0), <<req>>, s)
     ELSE IF field.value.t \in {"float", "int"}
     THEN Return(PyFloat(IF field.value.v[1] > 100 THEN 100
                         ELSE IF field.value.v[1] < 0 THEN 0
                         ELSE field.value.v[1]), <<req>>, s)
     ELSE Return(PyFloat(0), <<req>>, s)

-----------------------------------------------------------------------------
(* RobotAPI: the methods.  Each takes the instance, its arguments and what *)
(* the network does with the request of this call.                         *)

check_connection(s, net) ==
  LET url == s.prefix \o "/health"
      req == Request("GET", url, NoJson)
      response == requests_send(net)
  IN IF response.raised THEN Return(PyBool(FALSE), <<req>>, s)
     ELSE IF response.status_code = 200 THEN Return(PyBool(TRUE), <<req>>, s)
     ELSE Return(PyBool(FALSE), <<req>>, s)

position(s, robot_name, net) ==
  LET url == s.prefix \o "/current_position"
      req == Request("GET", url, NoJson)
      response == requests_send(net)
      field == json_field(response, "position")
  IN IF response.raised THEN Return(PyNone, <<req>>, s)
     ELSE IF response.status_code = 200
     THEN IF field.raised THEN Return(PyNone, <<req>>, s)
          ELSE Return(field.value, <<req>>, s)
     ELSE Return(PyNone, <<req>>, s)

navigate(s, robot_name, pose, map_name, net) ==
  LET url == s.prefix \o "/navigate"
  IN IF Len(pose) < 3 THEN Raise("IndexError", <<>>, s)
     ELSE
       LET json == <<Member("x", json_dumps(PyFloat(pose[1]))),
                     Member("y", json_dumps(PyFloat(pose[2]))),
                     Member("theta", json_dumps(PyFloat(pose[3])))>>
           req == Request("POST", url, json)
           response == requests_send(net)
       IN IF response.raised THEN Return(PyBool(FALSE), <<req>>, s)
          ELSE IF response.status_code = 200
          THEN Return(PyBool(TRUE), <<req>>, s)
          ELSE Return(PyBool(FALSE), <<req>>, s)

start_process(s, robot_name, process, map_name, net) ==
  Return(PyBool(TRUE), <<>>, s)

stop(s, robot_name, net) ==
  LET url == s.prefix \o "/stop_nav"
      req == Request("POST", url, <<Member("bool", json_dumps(PyBool(TRUE)))>>)
      response == requests_send(net)
  IN IF response.raised THEN Return(PyBool(FALSE), <<req>>, s)
     ELSE IF response.status_code = 200 THEN Return(PyBool(TRUE), <<req>>, s)
     ELSE Return(PyBool(FALSE), <<req>>, s)

navigation_remaining_duration(s, robot_name, net) ==
  LET url == s.prefix \o "/nav_remaining_duration"
      req == Request("GET", url, NoJson)
      response == requests_send(net)
      field == json_field(response, "duration")
  IN IF response.raised THEN Return(PyFloat(0), <<req>>, s)
     ELSE IF response.status_code = 200
     THEN IF field.raised THEN Return(PyFloat(0), <<req>>, s)
          ELSE Return(field.value, <<req>>, s)
     ELSE Return(PyFloat(0), <<req>>, s)

navigation_completed(s, robot_name, net) ==
  LET url == s.prefix \o "/nav_stat"
      req == Request("GET", url, NoJson)
      response == requests_send(net)
  IN IF response.raised THEN Return(PyBool(FALSE), <<req>>, s)
     ELSE IF response.status_code = 200 THEN Return(PyBool(TRUE), <<req>>, s)
     ELSE Return(PyBool(FALSE), <<req>>, s)

process_completed(s, robot_name, net) ==
  Return(PyBool(TRUE), <<>>, s)

battery_soc(s, robot_name, net) ==
  LET url == s.prefix \o "/soc"
      req == Request("GET", url, NoJson)
      response == requests_send(net)
      field == json_field(response, "soc")
  IN IF response.raised THEN Return(PyFloat(0), <<req>>, s)
     ELSE IF response.status_code = 200
     THEN IF field.raised THEN Return(PyFloat(0), <<req>>, s)
          ELSE Return(field.value, <<req>>, s)
     ELSE Return(PyFloat(0), <<req>>, s)

\* bool(value), as "if connected:" takes it
Truthy(p) ==
  CASE p.t = "bool" -> p.v[1] = 1
    [] p.t = "NoneType" -> FALSE
    [] p.t = "list" -> Len(p.v) > 0
    [] OTHER -> p.v[1] # 0

\* RobotAPI(prefix, user, password)
RobotAPI(prefix, user, password, net) ==
  LET s0 == [prefix |-> prefix, user |-> user, password |-> password,
             connected |-> FALSE]
      probe == check_connection(s0, net)
  IN IF probe.kind = "raise" THEN Raise(probe.exc, probe.reqs, probe.self)
     ELSE IF Truthy(probe.value)
     THEN Return(PyNone, probe.reqs, [probe.self EXCEPT !.connected = TRUE])
     ELSE Return(PyNone, probe.reqs, probe.self)

-----------------------------------------------------------------------------
(* The state machine: the instance is constructed, then called.            *)

Args(robot_name, pose, process, map_name) ==
  [robot_name |-> robot_name, pose |-> pose, process |-> process,
   map_name |-> map_name]

\* One call as the log keeps it; net is what the network did with the call's
\* request, NoNet when the call issued none.
Entry(op, args, net, ret) ==
  [op |-> op, args |-> args,
   net |-> IF ret.reqs = <<>> THEN NoNet ELSE net, kind |-> ret.kind,
   value |-> ret.value, exc |-> ret.exc, reqs |-> ret.reqs]

NoObject == [prefix |-> "", user |-> "", password |-> "", connected |-> FALSE]

NoCall == Entry("", Args("", <<>>, "", ""), NoNet, Return(PyNone, <<>>, NoObject))

Init ==
  /\ constructed = FALSE
  /\ self = NoObject
  /\ ctor = NoCall
  /\ log = <<>>

Called(op, args, net, ret) ==
  /\ constructed
  /\ Len(log) < MaxCalls
  /\ log' = Append(log, Entry(op, args, net, ret))
  /\ self' = ret.self
  /\ UNCHANGED <<constructed, ctor>>

do_init ==
  /\ ~constructed
  /\ \E prefix \in Prefixes : \E net \in Net(prefix) :
       LET ret == RobotAPI(prefix, "user", "password", net)
       IN /\ ctor' = Entry("__init__", Args("", <<>>, "", ""), net, ret)
          /\ self' = ret.self
          /\ constructed' = (ret.kind = "return")
  /\ UNCHANGED log

do_check_connection ==
  \E net \in Net(self.prefix) :
    Called("check_connection", Args("", <<>>, "", ""), net,
           check_connection(self, net))

do_position ==
  \E net \in Net(self.prefix), r \in Robots :
    Called("position", Args(r, <<>>, "", ""), net, position(self, r, net))

do_navigate ==
  \E net \in Net(self.prefix), r \in Robots, pose \in Poses, m \in Maps :
    Called("navigate", Args(r, pose, "", m), net,
           navigate(self, r, pose, m, net))

do_start_process ==
  \E net \in Net(self.prefix), r \in Robots, p \in Processes, m \in Maps :
    Called("start_process", Args(r, <<>>, p, m), net,
           start_process(self, r, p, m, net))

do_stop ==
  \E net \in Net(self.prefix), r \in Robots :
    Called("stop", Args(r, <<>>, "", ""), net, stop(self, r, net))

do_navigation_remaining_duration ==
  \E net \in Net(self.prefix), r \in Robots :
    Called("navigation_remaining_duration", Args(r, <<>>, "", ""), net,
           navigation_remaining_duration(self, r, net))

do_navigation_completed ==
  \E net \in Net(self.prefix), r \in Robots :
    Called("navigation_completed", Args(r, <<>>, "", ""), net,
           navigation_completed(self, r, net))

do_process_completed ==
  \E net \in Net(self.prefix), r \in Robots :
    Called("process_completed", Args(r, <<>>, "", ""), net,
           process_completed(self, r, net))

do_battery_soc ==
  \E net \in Net(self.prefix), r \in Robots :
    Called("battery_soc", Args(r, <<>>, "", ""), net,
           battery_soc(self, r, net))

Next ==
  \/ do_init
  \/ do_check_connection
  \/ do_position
  \/ do_navigate
  \/ do_start_process
  \/ do_stop
  \/ do_navigation_remaining_duration
  \/ do_navigation_completed
  \/ do_process_completed
  \/ do_battery_soc

Spec == Init /\ [][Next]_vars

-----------------------------------------------------------------------------
(* Vocabulary of the properties *)

StatusOps == {"check_connection", "navigate", "stop", "navigation_completed"}

ValueOps == {"position", "navigation_remaining_duration", "battery_soc"}

StubOps == {"start_process", "process_completed"}

WireOps == StatusOps \cup ValueOps

Sentinel(op) ==
  CASE op = "position" -> PyNone
    [] op \in {"navigation_remaining_duration", "battery_soc"} -> PyFloat(0)
    [] OTHER -> PyBool(FALSE)

FieldOf(op) ==
  CASE op = "position" -> "position"
    [] op = "navigation_remaining_duration" -> "duration"
    [] OTHER -> "soc"

PathOf(op) ==
  CASE op = "check_connection" -> "/health"
    [] op = "position" -> "/current_position"
    [] op = "navigate" -> "/navigate"
    [] op = "stop" -> "/stop_nav"
    [] op = "navigation_remaining_duration" -> "/nav_remaining_duration"
    [] op = "navigation_completed" -> "/nav_stat"
    [] OTHER -> "/soc"

MethodOf(op) == IF op \in {"navigate", "stop"} THEN "POST" ELSE "GET"

Answered(e) == e.reqs # <<>> /\ e.net.how = "reply"

Is200(e) == Answered(e) /\ e.net.status_code = 200

HasField(e) ==
  e.net.body.kind = "object" /\ HasKey(e.net.body.members, FieldOf(e.op))

SentField(e) == Lookup(e.net.body.members, FieldOf(e.op))

\* the remote call of e failed: transport failure, non-200 status, or a body
\* that is malformed or lacks the field the operation reads
Failed(e) ==
  /\ e.reqs # <<>>
  /\ \/ ~Is200(e)
     \/ e.op \in ValueOps /\ ~HasField(e)

IsNumber(p) == p.t \in {"float", "int"}

-----------------------------------------------------------------------------
\* C1: every operation, for every input and every outcome of the remote
\* call, returns (no exception escapes), and returns its documented sentinel
\* when the remote call failed.
C1_SentinelAndNoException ==
  /\ ctor.kind = "return"
  /\ \A i \in 1..Len(log) :
       /\ log[i].kind = "return"
       /\ Failed(log[i]) => log[i].value = Sentinel(log[i].op)

\* C2: construction never raises; afterwards connected is true exactly when
\* the one probe made during construction was answered with status 200.
C2_ConstructionSetsFlagFromProbe ==
  /\ ctor.kind = "return"
  /\ ctor.op = "__init__" => constructed
  /\ constructed =>
       /\ Len(ctor.reqs) = 1
       /\ self.connected = Is200(ctor)
       /\ self.prefix = Unreachable => ~self.connected

C2_Witness ==
  /\ constructed
  /\ self.prefix = Unreachable
  /\ ctor.net.how = "refused"
  /\ ~self.connected

\* C3: a status-only operation returns true if and only if its own endpoint
\* answered with status 200; once the request is out, any other status or a
\* transport failure gives false, whatever the body holds.
C3_TrueIffStatus200 ==
  \A i \in 1..Len(log) :
    log[i].op \in StatusOps =>
      /\ (log[i].kind = "return" /\ log[i].value = PyBool(TRUE)) <=> Is200(log[i])
      /\ log[i].reqs # <<>> =>
           /\ log[i].kind = "return"
           /\ log[i].value = PyBool(Is200(log[i]))
           /\ log[i].reqs[1].method = MethodOf(log[i].op)
           /\ log[i].reqs[1].url = self.prefix \o PathOf(log[i].op)

C3_Witness ==
  \E i, j \in 1..Len(log) :
    /\ log[i].op = "navigation_completed"
    /\ log[i].net = Reply(200, BodyText)
    /\ log[i].value = PyBool(TRUE)
    /\ log[j].op = "stop"
    /\ log[j].net = Reply(404, BodyGood)
    /\ log[j].value = PyBool(FALSE)

C5_NavigateRequest ==
  \A i \in 1..Len(log) :
    log[i].op = "navigate" /\ Len(log[i].args.pose) = 3 =>
      /\ log[i].reqs =
           <<Request("POST", self.prefix \o "/navigate",
                     <<Member("x", JReal(log[i].args.pose[1])),
                       Member("y", JReal(log[i].args.pose[2])),
                       Member("theta", JReal(log[i].args.pose[3]))>>)>>
      /\ Is200(log[i]) => log[i].kind = "return" /\ log[i].value = PyBool(TRUE)

C5_Witness ==
  \E i \in 1..Len(log) :
    /\ log[i].op = "navigate"
    /\ log[i].args.pose = <<300, 400, 157>>
    /\ log[i].reqs[1].json[3] = Member("theta", JReal(157))
    /\ Is200(log[i])
    /\ log[i].value = PyBool(TRUE)

InUnit(p) == IsNumber(p) /\ p.v[1] >= 0 /\ p.v[1] <= 100

NonNegative(p) == IsNumber(p) /\ p.v[1] >= 0

C7_FieldsNeverChange == [][constructed => self' = self]_vars

C7_Witness ==
  \E i \in 1..Len(log) :
    /\ log[i].op = "check_connection"
    /\ log[i].kind = "return"
    /\ Truthy(log[i].value) # self.connected

C9_ExactlyOneRequest ==
  /\ constructed =>
       ctor.reqs = <<Request("GET", self.prefix \o "/health", NoJson)>>
  /\ \A i \in 1..Len(log) :
       log[i].op \in WireOps =>
         /\ log[i].kind = "return"
         /\ Len(log[i].reqs) = 1
         /\ log[i].reqs[1].method = MethodOf(log[i].op)
         /\ log[i].reqs[1].url = self.prefix \o PathOf(log[i].op)

\* what a call returns, read off its operation and the answer to its own
\* request alone
AnswerAlone(op, net) ==
  CASE op \in StatusOps -> PyBool(net.how = "reply" /\ net.status_code = 200)
    [] op \in StubOps -> PyBool(TRUE)
    [] op = "position" ->
         IF net = Reply(200, BodyGood) THEN PyList(<<100, 200, 50>>)
         ELSE PyNone
    [] op = "navigation_remaining_duration" ->
         IF net = Reply(200, BodyGood) THEN PyFloat(1250)
         ELSE IF net = Reply(200, BodyOutOfRange) THEN PyFloat(-300)
         ELSE PyFloat(0)
    [] OTHER ->
         IF net = Reply(200, BodyGood) THEN PyFloat(75)
         ELSE IF net = Reply(200, BodyOutOfRange) THEN PyFloat(150)
         ELSE PyFloat(0)

\* C10: the result of a call depends only on its operation, its arguments
\* and the answer to its own request: two calls of a run that agree on
\* these agree on the result, and every returned value is the one read off
\* operation and answer alone, whatever was called before, whatever came
\* back, and whatever the connected flag says.
C10_ResultFromCallAlone ==
  /\ \A i, j \in 1..Len(log) :
       (log[i].op = log[j].op /\ log[i].args = log[j].args
          /\ log[i].net = log[j].net) => log[i] = log[j]
  /\ \A i \in 1..Len(log) :
       log[i].kind = "return" => log[i].value = AnswerAlone(log[i].op, log[i].net)

C10_Witness ==
  /\ ~self.connected
  /\ Len(log) = 2
  /\ log[1].op = "navigation_completed"
  /\ log[2].op = "navigation_completed"
  /\ log[1].net = Reply(200, BodyGood)
  /\ log[2].net = Reply(200, BodyGood)
  /\ log[1].value = PyBool(TRUE)
  /\ log[2].value = PyBool(TRUE)

====
